---- MODULE Spec2Model ----
(***************************************************************************)
(* Model of math_lib's Vector3d (src/src/vector_3d.rs) and of its three    *)
(* double-ended iterators Iter, IntoIter and IterMut                      *)
(* (src/src/vector_3d/iterator.rs).                                       *)
(*                                                                         *)
(* Component values are small integers, which every Float type (f32, f64)  *)
(* represents exactly, so +, - and * on them are exact.  A value produced  *)
(* by a division is an F record: a normalised fraction, NaN or an          *)
(* infinity.  Option<T> is a sequence: <<>> is None, <<x>> is Some(x).     *)
(*                                                                         *)
(* `+= 1` and `-= 1` on a u8 cursor panic when the crate is built with     *)
(* overflow checks (the dev and test profiles) and wrap modulo 2^8         *)
(* otherwise (the release profile); overflow_checks is chosen in Init.     *)
(***************************************************************************)
EXTENDS Integers, Sequences, FiniteSets

VARIABLES
    v,                \* the Vector3d value: [i, j, k]
    it,               \* the live iterator over v, kind "none" when there is none
    log,              \* what each completed next()/next_back() call on `it` returned
    panicked,         \* a panic! or an arithmetic-overflow panic has unwound the caller
    overflow_checks,  \* build profile: TRUE = overflow checks on
    last,             \* the last call of a non-iterator operation of v and its result
    loop,             \* `for x in &mut v { *x = *x + 1.0 }`: "none", "running", "done"
    v0                \* the value of v when the for loop started

vars == <<v, it, log, panicked, overflow_checks, last, loop, v0>>

-----------------------------------------------------------------------------
(* Bounds of the model *)

MaxVal == 1
MaxCalls == 5
MaxIndex == 3
NDim == 2

(* u8 *)
U8Modulus == 256

Vals == (-MaxVal)..MaxVal
Vec(i, j, k) == [i |-> i, j |-> j, k |-> k]
ExampleA == Vec(1, 2, 3)
ExampleB == Vec(4, 5, 6)
Vecs == {Vec(i, j, k) : i \in Vals, j \in Vals, k \in Vals} \cup {ExampleA, ExampleB}

-----------------------------------------------------------------------------
(* Option<T> *)

NoneOpt == <<>>
Some(x) == <<x>>
is_none(o) == o = NoneOpt
unwrap(o) == o[1]
unwrap_or(o, d) == IF o = NoneOpt THEN d ELSE o[1]

\* usize::checked_sub
checked_sub(n, m) == IF n >= m THEN Some(n - m) ELSE NoneOpt

\* `x += 1` on a u8
u8_add_assign(x, oc) ==
    IF x + 1 < U8Modulus THEN [val |-> x + 1, panic |-> FALSE]
    ELSE IF oc THEN [val |-> x, panic |-> TRUE]
    ELSE [val |-> (x + 1) % U8Modulus, panic |-> FALSE]

\* `x -= 1` on a u8
u8_sub_assign(x, oc) ==
    IF x - 1 >= 0 THEN [val |-> x - 1, panic |-> FALSE]
    ELSE IF oc THEN [val |-> x, panic |-> TRUE]
    ELSE [val |-> (x - 1) % U8Modulus, panic |-> FALSE]

-----------------------------------------------------------------------------
(* The iterators of Vector3d *)

Slots == {"i", "j", "k"}

\* the last arm names j again (the slip of vector.rs's IterMut)
match_index_k_as_j(index) ==
    CASE index = 0 -> Some("i")
      [] index = 1 -> Some("j")
      [] index = 2 -> Some("j")
      [] OTHER -> NoneOpt

\* `match self.front_index { 0 => Some(..i), 1 => Some(..j), 2 => Some(..k), _ => None }`
\* the same match in next and next_back of Iter, IntoIter and IterMut
match_index(index) ==
    CASE index = 0 -> Some("i")
      [] index = 1 -> Some("j")
      [] index = 2 -> Some("k")
      [] OTHER -> NoneOpt

\* the item a match arm evaluates to: the component of `inner` the arm names
Item(slot, inner) == IF slot = NoneOpt THEN NoneOpt
                     ELSE Some([slot |-> slot[1], val |-> inner[slot[1]]])

NoIter == [kind |-> "none", front_index |-> 0, end_index |-> 0, size |-> NoneOpt]

\* Iter { inner, front_index: 0, end_index: 2, size: Some(3) }, and the like
\* (IterMut names the back cursor back_index)
InitialSize == 3
InitialEnd == 2
NewIter(kind) ==
    [kind |-> kind, front_index |-> 0, end_index |-> InitialEnd, size |-> Some(InitialSize)]

\* what a call leaves behind: the iterator, the value returned, and whether it panicked
Outcome(s, ret, panic) == [it |-> s, ret |-> ret, panic |-> panic]

\* the tail of next(): match on front_index, then front_index += 1
YieldFront(s, inner, oc) ==
    LET to_return == Item(match_index(s.front_index), inner)
        inc == u8_add_assign(s.front_index, oc)
    IN  IF inc.panic THEN Outcome(s, NoneOpt, TRUE)
        ELSE Outcome([s EXCEPT !.front_index = inc.val], to_return, FALSE)

\* the tail of next_back(): match on end_index, then end_index -= 1
YieldBack(s, inner, oc) ==
    LET dir_to_return == Item(match_index(s.end_index), inner)
        dec == u8_sub_assign(s.end_index, oc)
    IN  IF dec.panic THEN Outcome(s, NoneOpt, TRUE)
        ELSE Outcome([s EXCEPT !.end_index = dec.val], dir_to_return, FALSE)

\* Iter::next
Iter_next(s, inner, oc) ==
    IF is_none(s.size) THEN Outcome(s, NoneOpt, FALSE)
    ELSE LET new_size == checked_sub(unwrap(s.size), 1)
         IN  IF is_none(new_size) THEN Outcome(s, NoneOpt, FALSE)
             ELSE YieldFront([s EXCEPT !.size = new_size], inner, oc)

\* Iter::next_back whose else branch, as IterMut's, does not return
Iter_next_back_falls_through(s, inner, oc) ==
    IF is_none(s.size) THEN Outcome(s, NoneOpt, FALSE)
    ELSE LET new_size == checked_sub(unwrap(s.size), 1)
             s1 == IF is_none(new_size) THEN [s EXCEPT !.size = NoneOpt]
                   ELSE [s EXCEPT !.size = new_size]
         IN  YieldBack(s1, inner, oc)

\* Iter::next_back
Iter_next_back(s, inner, oc) ==
    IF is_none(s.size) THEN Outcome(s, NoneOpt, FALSE)
    ELSE LET new_size == checked_sub(unwrap(s.size), 1)
         IN  IF is_none(new_size) THEN Outcome([s EXCEPT !.size = NoneOpt], NoneOpt, FALSE)
             ELSE YieldBack([s EXCEPT !.size = new_size], inner, oc)

\* IntoIter::next that rewinds the iterator when it is exhausted
IntoIter_next_rewinds(s, inner, oc) ==
    IF is_none(s.size) THEN Outcome(s, NoneOpt, FALSE)
    ELSE LET new_value == checked_sub(unwrap(s.size), 1)
         IN  IF is_none(new_value)
             THEN Outcome([s EXCEPT !.size = Some(InitialSize), !.front_index = 0,
                                    !.end_index = InitialEnd], NoneOpt, FALSE)
             ELSE YieldFront([s EXCEPT !.size = new_value], inner, oc)

\* IntoIter::next
IntoIter_next(s, inner, oc) ==
    IF is_none(s.size) THEN Outcome(s, NoneOpt, FALSE)
    ELSE LET new_value == checked_sub(unwrap(s.size), 1)
         IN  IF is_none(new_value) THEN Outcome([s EXCEPT !.size = NoneOpt], NoneOpt, FALSE)
             ELSE YieldFront([s EXCEPT !.size = new_value], inner, oc)

\* IntoIter::next_back
IntoIter_next_back(s, inner, oc) ==
    IF is_none(s.size) THEN Outcome(s, NoneOpt, FALSE)
    ELSE LET new_size == checked_sub(unwrap(s.size), 1)
         IN  IF is_none(new_size) THEN Outcome([s EXCEPT !.size = NoneOpt], NoneOpt, FALSE)
             ELSE YieldBack([s EXCEPT !.size = new_size], inner, oc)

\* IterMut::next without `self.front_index += 1`
IterMut_next_no_advance(s, inner, oc) ==
    IF is_none(s.size) THEN Outcome(s, NoneOpt, FALSE)
    ELSE LET new_value == checked_sub(unwrap(s.size), 1)
             s1 == IF is_none(new_value) THEN [s EXCEPT !.size = NoneOpt]
                   ELSE [s EXCEPT !.size = new_value]
         IN  Outcome(s1, Item(match_index(s1.front_index), inner), FALSE)

\* IterMut::next: the else branch sets size to None and, unlike Iter's, does not return
IterMut_next(s, inner, oc) ==
    IF is_none(s.size) THEN Outcome(s, NoneOpt, FALSE)
    ELSE LET new_value == checked_sub(unwrap(s.size), 1)
             s1 == IF is_none(new_value) THEN [s EXCEPT !.size = NoneOpt]
                   ELSE [s EXCEPT !.size = new_value]
         IN  YieldFront(s1, inner, oc)

\* IterMut::next_back: the else branch sets size to None and does not return
IterMut_next_back(s, inner, oc) ==
    IF is_none(s.size) THEN Outcome(s, NoneOpt, FALSE)
    ELSE LET new_value == checked_sub(unwrap(s.size), 1)
             s1 == IF is_none(new_value) THEN [s EXCEPT !.size = NoneOpt]
                   ELSE [s EXCEPT !.size = new_value]
         IN  YieldBack(s1, inner, oc)

\* ExactSizeIterator::len of impl_exact_size_iterator!
len(s) == unwrap_or(s.size, 0)

-----------------------------------------------------------------------------
(* The iterators of Vector (src/vector.rs): one u8 cursor, no remaining count *)

\* Iter { struct_ref, index: 0 } and IterMut { inner, index: 0, .. }
NewVectorIter(kind) == [kind |-> kind, index |-> 0]

\* the match of Iter::next
Vector_Iter_match(index) ==
    CASE index = 0 -> Some("i")
      [] index = 1 -> Some("j")
      [] index = 2 -> Some("k")
      [] OTHER -> NoneOpt

\* the match of IterMut::next: the arm of 2 names j
Vector_IterMut_match(index) ==
    CASE index = 0 -> Some("i")
      [] index = 1 -> Some("j")
      [] index = 2 -> Some("j")
      [] OTHER -> NoneOpt

\* Iterator for Iter: match on index, then index += 1, whatever the match gave
Vector_Iter_next(s, inner, oc) ==
    LET dir_to_return == Item(Vector_Iter_match(s.index), inner)
        inc == u8_add_assign(s.index, oc)
    IN  IF inc.panic THEN Outcome(s, NoneOpt, TRUE)
        ELSE Outcome([s EXCEPT !.index = inc.val], dir_to_return, FALSE)

\* Iterator for IterMut: match on index, then index += 1, whatever the match gave
Vector_IterMut_next(s, inner, oc) ==
    LET dir_to_return == Item(Vector_IterMut_match(s.index), inner)
        inc == u8_add_assign(s.index, oc)
    IN  IF inc.panic THEN Outcome(s, NoneOpt, TRUE)
        ELSE Outcome([s EXCEPT !.index = inc.val], dir_to_return, FALSE)

-----------------------------------------------------------------------------
(* Float values that are not integers *)

Abs(x) == IF x < 0 THEN -x ELSE x

RECURSIVE GCD(_, _)
GCD(a, b) == IF b = 0 THEN a ELSE GCD(b, a % b)

NaN == [kind |-> "nan", num |-> 0, den |-> 0]
Inf(sign) == [kind |-> "inf", num |-> sign, den |-> 0]

\* the finite value n/d (d # 0), in lowest terms with a positive denominator
Fin(n, d) ==
    LET g == GCD(Abs(n), Abs(d))
        sgn == IF d < 0 THEN -1 ELSE 1
    IN  [kind |-> "fin", num |-> (sgn * n) \div g, den |-> (sgn * d) \div g]

IsNaN(x) == x.kind = "nan"

\* IEEE 754 division a / b of two integer-valued floats: 0/0 is NaN, x/0 an infinity
f_div(a, b) ==
    IF b # 0 THEN Fin(a, b)
    ELSE IF a = 0 THEN NaN
    ELSE Inf(IF a > 0 THEN 1 ELSE -1)

\* IEEE 754 product of the integer-valued float x and the float s
f_mul(x, s) ==
    CASE s.kind = "nan" -> NaN
      [] s.kind = "inf" -> IF x = 0 THEN NaN ELSE Inf(IF x > 0 THEN s.num ELSE -s.num)
      [] OTHER -> Fin(x * s.num, s.den)

\* f32::acos: NaN outside [-1, 1] and on NaN, else the angle whose cosine is x
f_acos(x) ==
    IF x.kind = "fin" /\ Abs(x.num) <= x.den
    THEN [kind |-> "acos", num |-> x.num, den |-> x.den]
    ELSE NaN

IsSquare(n) == \E r \in 0..n : r * r = n

\* f32::sqrt of an integer-valued float that is a perfect square
f_sqrt(n) == CHOOSE r \in 0..n : r * r = n

-----------------------------------------------------------------------------
(* Vector3d: geometry and indexing *)

\* Vector3d::dot
dot(self, other) == self.i * other.i + self.j * other.j + self.k * other.k

SumOfSquares(self) == self.i * self.i + self.j * self.j + self.k * self.k

\* Vector3d::magnitude
magnitude(self) == f_sqrt(SumOfSquares(self))

\* the vectors whose magnitude is an integer
HasExactMagnitude(self) == IsSquare(SumOfSquares(self))

\* cross without the negation of the j component
cross_j_not_negated(self, other) ==
    LET i_cross == self.j * other.k - other.j * self.k
        j_cross == self.i * other.k - other.i * self.k
        k_cross == self.i * other.j - other.i * self.j
    IN  [i |-> i_cross, j |-> j_cross, k |-> k_cross]

\* cross with `+` for `-` in the k component
cross_k_sign_slip(self, other) ==
    LET i_cross == self.j * other.k - other.j * self.k
        j_cross == self.i * other.k - other.i * self.k
        k_cross == self.i * other.j + other.i * self.j
    IN  [i |-> i_cross, j |-> -j_cross, k |-> k_cross]

\* Vector3d::cross
cross(self, other) ==
    LET i_cross == self.j * other.k - other.j * self.k
        j_cross == self.i * other.k - other.i * self.k
        k_cross == self.i * other.j - other.i * self.j
    IN  [i |-> i_cross, j |-> -j_cross, k |-> k_cross]

\* the componentwise negation of a vector (-0.0 equals 0.0)
neg(self) == [i |-> -self.i, j |-> -self.j, k |-> -self.k]

\* Add for Vector3d
add(self, rhs) == [i |-> self.i + rhs.i, j |-> self.j + rhs.j, k |-> self.k + rhs.k]

\* AddAssign for Vector3d: `*self = Vector3d { .. }`
add_assign(self, rhs) == [i |-> self.i + rhs.i, j |-> self.j + rhs.j, k |-> self.k + rhs.k]

\* Sub for Vector3d
sub(self, rhs) == [i |-> self.i - rhs.i, j |-> self.j - rhs.j, k |-> self.k - rhs.k]

\* SubAssign whose k component is added, not subtracted
sub_assign_k_added(self, rhs) ==
    [i |-> self.i - rhs.i, j |-> self.j - rhs.j, k |-> self.k + rhs.k]

\* SubAssign for Vector3d
sub_assign(self, rhs) == [i |-> self.i - rhs.i, j |-> self.j - rhs.j, k |-> self.k - rhs.k]

\* Mul<T> for Vector3d
mul(self, scalar) == [i |-> self.i * scalar, j |-> self.j * scalar, k |-> self.k * scalar]

\* MulAssign<T> for Vector3d
mul_assign(self, scalar) ==
    [i |-> self.i * scalar, j |-> self.j * scalar, k |-> self.k * scalar]

\* Vector3d::angle_rad
angle_rad(self, other) ==
    f_acos(f_div(dot(self, other), magnitude(self) * magnitude(other)))

\* Vector3d::unit_vector; T::from(mag) of a float is Some(mag), so unwrap() returns
unit_vector(self) ==
    LET mag == magnitude(self)
    IN  [i |-> f_div(self.i, mag), j |-> f_div(self.j, mag), k |-> f_div(self.k, mag)]

\* Vector3d::project; T::from of a float, NaN included, is Some, so unwrap() returns
project(u, w) ==
    LET u_dot_v == dot(u, w)
        v_magnitude == dot(w, w)
        scalar == f_div(u_dot_v, v_magnitude)
    IN  [i |-> f_mul(w.i, scalar), j |-> f_mul(w.j, scalar), k |-> f_mul(w.k, scalar)]

Panic == [tag |-> "panic"]
Ref(slot, val) == [tag |-> "ref", slot |-> slot, val |-> val]
Value(x) == [tag |-> "value", val |-> x]

\* index with a last arm that clamps to k instead of panicking
index_clamped(self, idx) ==
    CASE idx = 0 -> Ref("i", self.i)
      [] idx = 1 -> Ref("j", self.j)
      [] OTHER -> Ref("k", self.k)

\* index_mut with the arms of j and k exchanged
index_mut_swapped(self, idx) ==
    CASE idx = 0 -> Ref("i", self.i)
      [] idx = 1 -> Ref("k", self.k)
      [] idx = 2 -> Ref("j", self.j)
      [] OTHER -> Panic

\* Index<u8>::index
index(self, idx) ==
    CASE idx = 0 -> Ref("i", self.i)
      [] idx = 1 -> Ref("j", self.j)
      [] idx = 2 -> Ref("k", self.k)
      [] OTHER -> Panic

\* IndexMut<u8>::index_mut
index_mut(self, idx) ==
    CASE idx = 0 -> Ref("i", self.i)
      [] idx = 1 -> Ref("j", self.j)
      [] idx = 2 -> Ref("k", self.k)
      [] OTHER -> Panic

-----------------------------------------------------------------------------
(* State *)

\* v0 outside the for loop
NoVec == Vec(0, 0, 0)

\* the record of a call: the operation, its operands and what the caller got
CallOf(op, self, other, idx, val, out) ==
    [op |-> op, self |-> self, other |-> other, idx |-> idx, val |-> val, out |-> out]

NoCall == CallOf("none", NoVec, NoVec, 0, 0, [tag |-> "none"])

Init ==
    /\ v \in Vecs
    /\ it = NoIter
    /\ log = <<>>
    /\ panicked = FALSE
    /\ overflow_checks \in BOOLEAN
    /\ last = NoCall
    /\ loop = "none"
    /\ v0 = NoVec

\* a caller may call next() or next_back() on the live iterator of this kind
Callable(kind) ==
    /\ ~panicked
    /\ loop = "none"
    /\ it.kind = kind
    /\ Len(log) < MaxCalls

\* the call leaves outcome r: the iterator is updated and the caller gets r.ret,
\* unless the call panicked
Returns(op, r) ==
    /\ it' = r.it
    /\ panicked' = r.panic
    /\ log' = IF r.panic THEN log ELSE Append(log, [op |-> op, ret |-> r.ret])
    /\ UNCHANGED <<v, overflow_checks, last, loop, v0>>

\* v is not borrowed: no iterator is live, the caller has not unwound and has not
\* yet called an operation on v
Idle == ~panicked /\ it.kind = "none" /\ last = NoCall

\* a fresh iterator of this kind over v
Created(kind) ==
    /\ it' = NewIter(kind)
    /\ log' = <<>>
    /\ UNCHANGED <<v, panicked, overflow_checks, last, loop, v0>>

\* Vector3d::iter, and into_iter of &Vector3d
iter ==
    /\ Idle
    /\ Created("Iter")

\* into_iter of Vector3d: v moves into IntoIter.inner
into_iter ==
    /\ Idle
    /\ Created("IntoIter")

\* Vector3d::iter_mut, and into_iter of &mut Vector3d
iter_mut ==
    /\ Idle
    /\ Created("IterMut")

CallIterNext ==
    /\ Callable("Iter")
    /\ Returns("next", Iter_next(it, v, overflow_checks))

CallIterNextBack ==
    /\ Callable("Iter")
    /\ Returns("next_back", Iter_next_back(it, v, overflow_checks))

CallIntoIterNext ==
    /\ Callable("IntoIter")
    /\ Returns("next", IntoIter_next(it, v, overflow_checks))

CallIntoIterNextBack ==
    /\ Callable("IntoIter")
    /\ Returns("next_back", IntoIter_next_back(it, v, overflow_checks))

CallIterMutNext ==
    /\ Callable("IterMut")
    /\ Returns("next", IterMut_next(it, v, overflow_checks))

CallIterMutNextBack ==
    /\ Callable("IterMut")
    /\ Returns("next_back", IterMut_next_back(it, v, overflow_checks))

\* the iterator goes out of scope
DropIter ==
    /\ ~panicked
    /\ it.kind # "none"
    /\ loop # "running"
    /\ it' = NoIter
    /\ log' = <<>>
    /\ loop' = "none"
    /\ v0' = NoVec
    /\ UNCHANGED <<v, panicked, overflow_checks, last>>

\* test_mut_iter: `for x in &mut vec` calls into_iter of &mut Vector3d
ForStart ==
    /\ Idle
    /\ \A c \in Slots : v[c] < MaxVal
    /\ it' = NewIter("IterMut")
    /\ log' = <<>>
    /\ loop' = "running"
    /\ v0' = v
    /\ UNCHANGED <<v, panicked, overflow_checks, last>>

\* one turn of the for loop: next(), then `*x = *x + 1.0` on Some(x), or leave on None
ForBody ==
    /\ ~panicked
    /\ loop = "running"
    /\ Len(log) < MaxCalls
    /\ LET r == IterMut_next(it, v, overflow_checks)
       IN  /\ it' = r.it
           /\ panicked' = r.panic
           /\ log' = IF r.panic THEN log ELSE Append(log, [op |-> "next", ret |-> r.ret])
           /\ loop' = IF ~r.panic /\ is_none(r.ret) THEN "done" ELSE loop
           /\ v' = IF r.panic \/ is_none(r.ret) THEN v
                   ELSE [v EXCEPT ![unwrap(r.ret).slot] = @ + 1]
    /\ UNCHANGED <<overflow_checks, last, v0>>

\* `v[idx]`
CallIndex ==
    /\ Idle
    /\ \E idx \in 0..MaxIndex :
          LET r == index(v, idx)
          IN  /\ last' = CallOf("index", v, v, idx, 0, r)
              /\ panicked' = (r.tag = "panic")
    /\ UNCHANGED <<v, it, log, overflow_checks, loop, v0>>

\* `v[idx] = x`
CallIndexMut ==
    /\ Idle
    /\ \E idx \in 0..MaxIndex, x \in Vals :
          LET r == index_mut(v, idx)
          IN  /\ last' = CallOf("index_mut", v, v, idx, x, r)
              /\ panicked' = (r.tag = "panic")
              /\ v' = IF r.tag = "panic" THEN v ELSE [v EXCEPT ![r.slot] = x]
    /\ UNCHANGED <<it, log, overflow_checks, loop, v0>>

\* `v.cross(&other)`
CallCross ==
    /\ Idle
    /\ \E other \in Vecs :
          last' = CallOf("cross", v, other, 0, 0, Value(cross(v, other)))
    /\ UNCHANGED <<v, it, log, panicked, overflow_checks, loop, v0>>

\* `v.unit_vector()`
CallUnitVector ==
    /\ Idle
    /\ HasExactMagnitude(v)
    /\ last' = CallOf("unit_vector", v, v, 0, 0, Value(unit_vector(v)))
    /\ UNCHANGED <<v, it, log, panicked, overflow_checks, loop, v0>>

\* `v.angle_rad(&other)`
CallAngleRad ==
    /\ Idle
    /\ HasExactMagnitude(v)
    /\ \E other \in {w \in Vecs : HasExactMagnitude(w)} :
          last' = CallOf("angle_rad", v, other, 0, 0, Value(angle_rad(v, other)))
    /\ UNCHANGED <<v, it, log, panicked, overflow_checks, loop, v0>>

\* `Vector3d::project(&v, &other)`
CallProject ==
    /\ Idle
    /\ \E other \in Vecs :
          last' = CallOf("project", v, other, 0, 0, Value(project(v, other)))
    /\ UNCHANGED <<v, it, log, panicked, overflow_checks, loop, v0>>

\* `v += other`
CallAddAssign ==
    /\ Idle
    /\ \E other \in Vecs :
          /\ v' = add_assign(v, other)
          /\ last' = CallOf("add_assign", v, other, 0, 0, [tag |-> "unit"])
    /\ UNCHANGED <<it, log, panicked, overflow_checks, loop, v0>>

\* `v -= other`
CallSubAssign ==
    /\ Idle
    /\ \E other \in Vecs :
          /\ v' = sub_assign(v, other)
          /\ last' = CallOf("sub_assign", v, other, 0, 0, [tag |-> "unit"])
    /\ UNCHANGED <<it, log, panicked, overflow_checks, loop, v0>>

\* `v *= scalar`
CallMulAssign ==
    /\ Idle
    /\ \E scalar \in Vals :
          /\ v' = mul_assign(v, scalar)
          /\ last' = CallOf("mul_assign", v, v, 0, scalar, [tag |-> "unit"])
    /\ UNCHANGED <<it, log, panicked, overflow_checks, loop, v0>>

\* the results of the last MaxCalls calls
Recent(seq) == IF Len(seq) > MaxCalls THEN Tail(seq) ELSE seq

\* a call on an iterator of Vector leaves outcome r; log keeps the last MaxCalls results
ReturnsRecent(op, r) ==
    /\ it' = r.it
    /\ panicked' = r.panic
    /\ log' = IF r.panic THEN log ELSE Recent(Append(log, [op |-> op, ret |-> r.ret]))
    /\ UNCHANGED <<v, overflow_checks, last, loop, v0>>

\* a fresh iterator of Vector over v
CreatedVector(kind) ==
    /\ it' = NewVectorIter(kind)
    /\ log' = <<>>
    /\ UNCHANGED <<v, panicked, overflow_checks, last, loop, v0>>

\* into_iter of &Vector
Vector_into_iter ==
    /\ Idle
    /\ CreatedVector("VectorIter")

\* Vector::iter_mut
Vector_iter_mut ==
    /\ Idle
    /\ CreatedVector("VectorIterMut")

CallVectorIterNext ==
    /\ ~panicked
    /\ it.kind = "VectorIter"
    /\ ReturnsRecent("next", Vector_Iter_next(it, v, overflow_checks))

CallVectorIterMutNext ==
    /\ ~panicked
    /\ it.kind = "VectorIterMut"
    /\ ReturnsRecent("next", Vector_IterMut_next(it, v, overflow_checks))

Next ==
    \/ iter
    \/ into_iter
    \/ iter_mut
    \/ CallIterNext
    \/ CallIterNextBack
    \/ CallIntoIterNext
    \/ CallIntoIterNextBack
    \/ CallIterMutNext
    \/ CallIterMutNextBack
    \/ DropIter
    \/ ForStart
    \/ ForBody
    \/ CallIndex
    \/ CallIndexMut
    \/ CallCross
    \/ CallUnitVector
    \/ CallAngleRad
    \/ CallProject
    \/ CallAddAssign
    \/ CallSubAssign
    \/ CallMulAssign
    \/ Vector_into_iter
    \/ Vector_iter_mut
    \/ CallVectorIterNext
    \/ CallVectorIterMutNext

Spec == Init /\ [][Next]_vars

-----------------------------------------------------------------------------
(* Vector<T, N> and its operators (src/vector/ops.rs) *)

\* the value (): what a block without a tail expression, or an assignment, evaluates to
Unit == [kind |-> "unit", num |-> 0, den |-> 0]

\* the float with the integer value n
Float(n) == Fin(n, 1)

\* the four operators of T: Float on finite operands
F_add(x, y) == Fin(x.num * y.den + y.num * x.den, x.den * y.den)
F_sub(x, y) == Fin(x.num * y.den - y.num * x.den, x.den * y.den)
F_mul(x, y) == Fin(x.num * y.num, x.den * y.den)
F_div(x, y) == f_div(x.num * y.den, x.den * y.num)

\* Vector<T, N>: the array `components` of N elements
NdVector(cs) == [components |-> cs]
Dims == 1..NDim

\* Vector::zero(): N zeros
zero == NdVector([n \in Dims |-> Float(0)])

NdVecs == {NdVector(cs) : cs \in [Dims -> {Float(n) : n \in Vals}]}
Scalars == {Float(n) : n \in Vals}

\* `self + rhs`: sum starts as zero(), each element is set to e2 + e3, sum is returned
nd_add(self, rhs) ==
    LET sum == [n \in Dims |-> F_add(self.components[n], rhs.components[n])]
    IN  NdVector(sum)

\* `self += rhs`: components is replaced by its map under a closure whose body
\* `*x += rhs` has the value ()
nd_add_assign(self, rhs) ==
    NdVector([n \in Dims |-> Unit])

\* `self * rhs`: each element of output is set to e1 * rhs, output is returned
nd_mul(self, rhs) ==
    LET output == [n \in Dims |-> F_mul(self.components[n], rhs)]
    IN  NdVector(output)

\* `self *= rhs`: components is replaced by its map under a closure whose body
\* `x = x * rhs` has the value ()
nd_mul_assign(self, rhs) ==
    NdVector([n \in Dims |-> Unit])

\* `self - rhs`: each element of output is set to e1 - e2, output is returned
nd_sub(self, rhs) ==
    LET output == [n \in Dims |-> F_sub(self.components[n], rhs.components[n])]
    IN  NdVector(output)

\* `self -= rhs`: a loop over the zipped elements, *e1 = *e1 - *e2
nd_sub_assign(self, rhs) ==
    NdVector([n \in Dims |-> F_sub(self.components[n], rhs.components[n])])

\* `self / rhs`: each element of output is set to e1 / rhs, and the body ends
\* without a tail expression: output is dropped, the value of the body is ()
nd_div(self, rhs) ==
    LET output == [n \in Dims |-> F_div(self.components[n], rhs)]
    IN  Unit

\* `self /= rhs`: components is replaced by its map under a closure whose body
\* `*x = x / rhs` has the value ()
nd_div_assign(self, rhs) ==
    NdVector([n \in Dims |-> Unit])

\* the state before any operator of Vector<T, N> is applied to the vector v
InitND ==
    /\ v \in NdVecs
    /\ it = NoIter
    /\ log = <<>>
    /\ panicked = FALSE
    /\ overflow_checks \in BOOLEAN
    /\ last = NoCall
    /\ loop = "none"
    /\ v0 = NoVec

\* `v + rhs`
CallNdAdd ==
    /\ last.op = "none"
    /\ \E rhs \in NdVecs :
          last' = CallOf("nd_add", v, rhs, 0, 0, nd_add(v, rhs))
    /\ UNCHANGED <<v, it, log, panicked, overflow_checks, loop, v0>>

\* `v - rhs`
CallNdSub ==
    /\ last.op = "none"
    /\ \E rhs \in NdVecs :
          last' = CallOf("nd_sub", v, rhs, 0, 0, nd_sub(v, rhs))
    /\ UNCHANGED <<v, it, log, panicked, overflow_checks, loop, v0>>

\* `v * rhs`
CallNdMul ==
    /\ last.op = "none"
    /\ \E rhs \in Scalars :
          last' = CallOf("nd_mul", v, v, 0, rhs, nd_mul(v, rhs))
    /\ UNCHANGED <<v, it, log, panicked, overflow_checks, loop, v0>>

\* `v / rhs`
CallNdDiv ==
    /\ last.op = "none"
    /\ \E rhs \in Scalars :
          last' = CallOf("nd_div", v, v, 0, rhs, nd_div(v, rhs))
    /\ UNCHANGED <<v, it, log, panicked, overflow_checks, loop, v0>>

\* `(v * s) / rhs`: the division applied to the product just computed
CallNdDivOfProduct ==
    /\ last.op = "nd_mul"
    /\ log = <<>>
    /\ \E rhs \in Scalars :
          last' = CallOf("nd_div", last.out, last.out, 0, rhs, nd_div(last.out, rhs))
    /\ log' = <<last>>
    /\ UNCHANGED <<v, it, panicked, overflow_checks, loop, v0>>

\* `v += rhs`
CallNdAddAssign ==
    /\ last.op = "none"
    /\ \E rhs \in NdVecs :
          /\ v' = nd_add_assign(v, rhs)
          /\ last' = CallOf("nd_add_assign", v, rhs, 0, 0, Unit)
    /\ UNCHANGED <<it, log, panicked, overflow_checks, loop, v0>>

\* `v -= rhs`
CallNdSubAssign ==
    /\ last.op = "none"
    /\ \E rhs \in NdVecs :
          /\ v' = nd_sub_assign(v, rhs)
          /\ last' = CallOf("nd_sub_assign", v, rhs, 0, 0, Unit)
    /\ UNCHANGED <<it, log, panicked, overflow_checks, loop, v0>>

\* `v *= rhs`
CallNdMulAssign ==
    /\ last.op = "none"
    /\ \E rhs \in Scalars :
          /\ v' = nd_mul_assign(v, rhs)
          /\ last' = CallOf("nd_mul_assign", v, v, 0, rhs, Unit)
    /\ UNCHANGED <<it, log, panicked, overflow_checks, loop, v0>>

\* `v /= rhs`
CallNdDivAssign ==
    /\ last.op = "none"
    /\ \E rhs \in Scalars :
          /\ v' = nd_div_assign(v, rhs)
          /\ last' = CallOf("nd_div_assign", v, v, 0, rhs, Unit)
    /\ UNCHANGED <<it, log, panicked, overflow_checks, loop, v0>>

NextND ==
    \/ CallNdAdd
    \/ CallNdSub
    \/ CallNdMul
    \/ CallNdDiv
    \/ CallNdDivOfProduct
    \/ CallNdAddAssign
    \/ CallNdSubAssign
    \/ CallNdMulAssign
    \/ CallNdDivAssign

SpecND == InitND /\ [][NextND]_vars

-----------------------------------------------------------------------------
(* Properties of the iterators *)

Kinds == {"Iter", "IntoIter", "IterMut"}

\* the calls on the live iterator that returned Some
Yields == {n \in DOMAIN log : ~is_none(log[n].ret)}
SlotOf(n) == unwrap(log[n].ret).slot

ForwardOnly == \A n \in DOMAIN log : log[n].op = "next"
BackwardOnly == \A n \in DOMAIN log : log[n].op = "next_back"
ForwardOrder == <<"i", "j", "k">>
BackwardOrder == <<"k", "j", "i">>

\* what the n-th call of a one-directional traversal of `inner` is to return
Expected(order, n, inner) ==
    IF n <= InitialSize THEN Some([slot |-> order[n], val |-> inner[order[n]]])
    ELSE NoneOpt

AtMostThreeDistinct ==
    /\ Cardinality(Yields) <= InitialSize
    /\ \A m, n \in Yields : m # n => SlotOf(m) # SlotOf(n)

\* C1: on an Iter or an IntoIter, whatever the sequence of next() and next_back()
\* calls, at most 3 calls return Some and no component is returned by two calls.
C1_SharedOwnedNoOverlap ==
    it.kind \in {"Iter", "IntoIter"} => AtMostThreeDistinct

C1_Witness ==
    /\ it.kind \in {"Iter", "IntoIter"}
    /\ Cardinality(Yields) = InitialSize
    /\ Len(log) > InitialSize
    /\ \E m, n \in Yields : log[m].op = "next" /\ log[n].op = "next_back"
    /\ \E n \in DOMAIN log : n > InitialSize /\ log[n].op = "next_back"

\* C2: on an IterMut, whatever the sequence of next() and next_back() calls, at
\* most 3 calls return Some and no two calls return a reference to the same component.
C2_IterMutNoOverlap ==
    it.kind = "IterMut" => AtMostThreeDistinct

\* C3: calling only next() on a fresh iterator of any kind returns i, then j, then
\* k, and None from the fourth call on.
C3_ForwardOrder ==
    (it.kind \in Kinds /\ loop = "none" /\ ForwardOnly) =>
        /\ ~panicked
        /\ \A n \in DOMAIN log : log[n].ret = Expected(ForwardOrder, n, v)

C3_Witness ==
    /\ it.kind = "IterMut"
    /\ loop = "none"
    /\ ForwardOnly
    /\ Len(log) > InitialSize
    /\ v.i # v.j

\* C4: calling only next_back() on a fresh iterator of any kind returns k, then j,
\* then i, and None from the fourth call on.
C4_BackwardOrder ==
    (it.kind \in Kinds /\ BackwardOnly) =>
        /\ ~panicked
        /\ \A n \in DOMAIN log : log[n].ret = Expected(BackwardOrder, n, v)

\* C5: len() of an iterator is always 3 minus the number of elements it has
\* yielded: size is decremented once by a call that returns Some and by no other.
C5_LenTracksYields ==
    (it.kind \in Kinds /\ ~panicked) => len(it) = InitialSize - Cardinality(Yields)

\* C6: `for x in &mut v { *x = *x + 1.0 }` ends after the fourth next(), which
\* returns None, with every component of v one more than it was.
C6_ForLoopAddsOne ==
    /\ loop = "running" =>
            /\ Len(log) <= InitialSize
            /\ \A n \in DOMAIN log : log[n].ret = Expected(ForwardOrder, n, v0)
            /\ Len(log) = InitialSize =>
                    is_none(IterMut_next(it, v, overflow_checks).ret)
    /\ loop = "done" =>
            /\ ~panicked
            /\ Len(log) = InitialSize + 1
            /\ Cardinality(Yields) = InitialSize
            /\ v = Vec(v0.i + 1, v0.j + 1, v0.k + 1)

C6_Witness ==
    /\ loop = "done"
    /\ v # v0
    /\ v0.i # v0.j

-----------------------------------------------------------------------------
(* Properties of indexing and geometry *)

IndexCalled == last.op \in {"index", "index_mut"}
InRange(idx) == idx \in 0..(InitialSize - 1)
SlotAt(idx) == ForwardOrder[idx + 1]

\* C7 as stated: an index outside 0..=2, read or written, gives the caller an
\* IndexOutOfRange error as a result, without a panic.
C7_OutOfRangeIsRecoverable ==
    (IndexCalled /\ ~InRange(last.idx)) =>
        (~panicked /\ last.out.tag = "IndexOutOfRange")

\* C7 as amended: an index outside 0..=2, read or written, panics: the caller gets
\* no value and no error result, and the vector is left as it was.
C7_OutOfRangePanics ==
    (IndexCalled /\ ~InRange(last.idx)) =>
        (panicked /\ last.out = Panic /\ v = last.self)

C7_Witness ==
    /\ last.op = "index_mut"
    /\ last.idx = InitialSize
    /\ panicked

\* C8: indices 0, 1 and 2 refer to components i, j and k: a read gives that
\* component, a write changes that component and no other.
C8_IndexNamesComponents ==
    /\ (last.op = "index" /\ InRange(last.idx)) =>
            /\ ~panicked
            /\ last.out = Ref(SlotAt(last.idx), last.self[SlotAt(last.idx)])
            /\ v = last.self
    /\ (last.op = "index_mut" /\ InRange(last.idx)) =>
            /\ ~panicked
            /\ v = [last.self EXCEPT ![SlotAt(last.idx)] = last.val]

C8_Witness ==
    /\ last.op = "index_mut"
    /\ last.idx = 2
    /\ v.k # last.self.k
    /\ v.k # v.j

ZeroMagnitude(a) == SumOfSquares(a) = 0

\* the calls whose operands make the operation undefined
DomainViolation ==
    \/ last.op = "unit_vector" /\ ZeroMagnitude(last.self)
    \/ last.op = "angle_rad" /\ (ZeroMagnitude(last.self) \/ ZeroMagnitude(last.other))
    \/ last.op = "project" /\ ZeroMagnitude(last.other)

\* C9: unit_vector of a zero-magnitude vector, angle_rad with a zero-magnitude
\* operand and project onto the zero vector return a DomainError to the caller,
\* not a NaN-valued result and not a panic.
C9_DomainErrorReturned ==
    DomainViolation => (~panicked /\ last.out.tag = "DomainError")

\* C10: a.cross(b) is (a.j*b.k - b.j*a.k, -(a.i*b.k - b.i*a.k), a.i*b.j - b.i*a.j),
\* and cross((1,2,3), (4,5,6)) is (-3, 6, -3).
C10_CrossFormula ==
    last.op = "cross" =>
        LET a == last.self
            b == last.other
        IN  /\ last.out.val.i = a.j * b.k - b.j * a.k
            /\ last.out.val.j = -(a.i * b.k - b.i * a.k)
            /\ last.out.val.k = a.i * b.j - b.i * a.j
            /\ (a = Vec(1, 2, 3) /\ b = Vec(4, 5, 6)) => last.out.val = Vec(-3, 6, -3)

C10_Witness ==
    /\ last.op = "cross"
    /\ last.self = Vec(1, 2, 3)
    /\ last.other = Vec(4, 5, 6)
    /\ last.out.val = Vec(-3, 6, -3)

\* C11: a.cross(b) is the componentwise negation of b.cross(a).
C11_CrossAnticommutative ==
    last.op = "cross" => last.out.val = neg(cross(last.other, last.self))

C11_Witness ==
    /\ last.op = "cross"
    /\ last.out.val.i # 0
    /\ last.out.val.j # 0
    /\ last.out.val.k # 0
    /\ cross(last.other, last.self) # last.out.val

\* C12: after `a += b`, `a -= b` or `a *= s` on a Vector3d, a is what the pure
\* `a + b`, `a - b` or `a * s` gives from the old a: all three components are
\* updated and a still has the components i, j, k and no other.
C12_InPlaceIsPure ==
    /\ last.op = "add_assign" => v = add(last.self, last.other)
    /\ last.op = "sub_assign" => v = sub(last.self, last.other)
    /\ last.op = "mul_assign" => v = mul(last.self, last.val)
    /\ last.op \in {"add_assign", "sub_assign", "mul_assign"} => DOMAIN v = Slots

C12_Witness ==
    /\ last.op = "sub_assign"
    /\ v.i # last.self.i
    /\ v.j # last.self.j
    /\ v.k # last.self.k
    /\ v.k # last.self.k + last.other.k

ReturnedNone == {n \in DOMAIN log : is_none(log[n].ret)}

\* C16: once a call of next() or next_back() on an Iter, IntoIter or IterMut has
\* returned None, every later call of either returns None.
C16_Fused ==
    it.kind \in Kinds =>
        /\ \A m \in ReturnedNone : \A n \in DOMAIN log : n > m => is_none(log[n].ret)
        /\ ReturnedNone # {} => ~panicked

C16_Witness ==
    /\ it.kind = "IterMut"
    /\ \E m \in ReturnedNone : \E n \in DOMAIN log : n > m /\ log[n].op # log[m].op
    /\ \E m \in ReturnedNone : \E n \in Yields : log[n].op # log[m].op

\* C18: the cursors of an Iter, IntoIter or IterMut stay in range whatever the
\* calls: the back cursor is never decremented below 0 and the front cursor never
\* exceeds 3, so no cursor update overflows, underflows or wraps.
C18_CursorsInRange ==
    it.kind \in Kinds =>
        /\ ~panicked
        /\ it.end_index \in 0..InitialEnd
        /\ it.front_index \in 0..InitialSize

\* the log still holds every call made on the iterator of Vector
FromFirstCall == it.index = Len(log)

\* C15: draining Vector::iter_mut() with next() gives i, then j, then k, each
\* once, and then None.
C15_VectorIterMutDrains ==
    (it.kind = "VectorIterMut" /\ FromFirstCall) =>
        \A n \in DOMAIN log : log[n].ret = Expected(ForwardOrder, n, v)

\* C17: next() on the Iter of Vector gives i, j, k and then None on every later
\* call, however many: its u8 index never overflows and never wraps to 0.
C17_VectorIterNeverWraps ==
    it.kind = "VectorIter" =>
        /\ ~panicked
        /\ FromFirstCall =>
                \A n \in DOMAIN log : log[n].ret = Expected(ForwardOrder, n, v)
        /\ \A m \in ReturnedNone : \A n \in DOMAIN log : n > m => is_none(log[n].ret)

\* a division whose operand is the product of the preceding multiplication, by
\* the same nonzero scalar
DivUndoesMul ==
    /\ last.op = "nd_div"
    /\ log # <<>>
    /\ log[1].op = "nd_mul"
    /\ last.self = log[1].out
    /\ last.val = log[1].val
    /\ last.val # Float(0)

\* C13: for every vector a and every nonzero scalar s, scalar multiplication
\* followed by scalar division is defined and returns the original vector:
\* (a*s)/s == a, component by component.
C13_DivUndoesMul ==
    DivUndoesMul =>
        /\ DOMAIN last.out = {"components"}
        /\ \A n \in Dims : last.out.components[n] = log[1].self.components[n]

NdAssignOps == {"nd_add_assign", "nd_sub_assign", "nd_mul_assign", "nd_div_assign"}

\* the pure operator applied to the operands of the in-place call
NdPure(call) ==
    CASE call.op = "nd_add_assign" -> nd_add(call.self, call.other)
      [] call.op = "nd_sub_assign" -> nd_sub(call.self, call.other)
      [] call.op = "nd_mul_assign" -> nd_mul(call.self, call.val)
      [] call.op = "nd_div_assign" -> nd_div(call.self, call.val)

\* C14: for Vector<T, N> and each of +=, -=, *= and /=: after `a op= x`, every
\* one of the N components of a equals the corresponding component of the pure
\* `a op x` computed from the old a, and a still has exactly N components.
C14_NdInPlaceIsPure ==
    last.op \in NdAssignOps =>
        /\ DOMAIN v.components = Dims
        /\ DOMAIN NdPure(last) = {"components"}
        /\ \A n \in Dims : v.components[n] = NdPure(last).components[n]

====
